---- MODULE Spec2Model ----
(***************************************************************************)
(* A model of main.py: a FastAPI application whose handlers read two       *)
(* module-level collections (fake_items_db, fake_users_db) and answer      *)
(* each request with a status, headers and a JSON body.                    *)
(*                                                                         *)
(* Values.  A Python value that may be None (and a JSON value that may be  *)
(* null) is None == <<>> or Some(v) == <<v>>.  A JSON object is a record   *)
(* whose DOMAIN is its set of keys, so an omitted key is a key that is not *)
(* in the DOMAIN.  A pydantic model instance is a record with every        *)
(* declared field.  A float is modelled by an integer.                     *)
(***************************************************************************)
EXTENDS Integers, Sequences, FiniteSets, TLC

VARIABLES fake_items_db, fake_users_db, auth, exchange

vars == <<fake_items_db, fake_users_db, auth, exchange>>

None == <<>>
Some(v) == <<v>>

Range(s) == {s[i] : i \in DOMAIN s}
Min(a, b) == IF a < b THEN a ELSE b
Max(a, b) == IF a < b THEN b ELSE a

\* The enumerations of a set as a sequence without repetition: the orders in
\* which Python may iterate a set of strings.
Orderings(S) ==
    {s \in [1..Cardinality(S) -> S] : \A i, j \in DOMAIN s : i # j => s[i] # s[j]}

\* The value of key k of a JSON object, or the default d when k is omitted.
Get(obj, k, d) == IF k \in DOMAIN obj THEN obj[k] ELSE d

\* The JSON objects that omit key k or carry it with one of vals.
OptKey(k, vals) == {<<>>} \cup {k :> v : v \in vals}

Restrict(obj, keys) == [k \in keys \cap DOMAIN obj |-> obj[k]]

(***************************************************************************)
(* Bounds of the model                                                     *)
(***************************************************************************)
\* skip ranges over -MaxNegative..MaxSkip and limit over
\* -MaxNegative..MaxLimit; an Offer has at most MaxOfferItems items; item_id
\* ranges over the values within IdMargin of each bound of the path parameter.
MaxSkip == 5
MaxLimit == 5
MaxNegative == 4
MaxOfferItems == 2
IdMargin == 2

(***************************************************************************)
(* Module-level data (main.py:9-25)                                        *)
(***************************************************************************)
seed_items_db == <<[item_name |-> "Foo"], [item_name |-> "Bar"], [item_name |-> "Baz"]>>

seed_users_db ==
    [johndoe |-> [username |-> "johndoe",
                  full_name |-> "John Doe",
                  email |-> "johndoe@example.com",
                  hashed_password |-> "fakehashedsecret",
                  disabled |-> FALSE],
     alice   |-> [username |-> "alice",
                  full_name |-> "Alice Wonderson",
                  email |-> "alice@example.com",
                  hashed_password |-> "fakehashedsecret2",
                  disabled |-> TRUE]]

(***************************************************************************)
(* The declared fields of the pydantic models                              *)
(***************************************************************************)
BaseUser_fields == {"username", "email", "full_name"}
Image_fields == {"url", "name"}
Item_fields == {"name", "description", "price", "tax", "images", "tags"}
Offer_fields == {"name", "description", "price", "items"}

description_max_length == 300
price_ge == 0

(***************************************************************************)
(* Responses                                                               *)
(***************************************************************************)
\* A response of the application.
Response(status, headers, body) ==
    [status |-> status, headers |-> headers, body |-> body]

\* raise HTTPException(status_code, detail, headers): FastAPI's handler for it
\* answers with the status, the headers and the body {"detail": detail}.
HTTPException(status_code, detail, headers) ==
    Response(status_code, headers, [detail |-> detail])

\* A request that fails validation is answered 422 with the locations of the
\* offending values (their order is not modelled); the handler body is not run.
RequestValidationError(locs) ==
    Response(422, <<>>, [detail |-> {[loc |-> l] : l \in locs}])

\* response_model filtering: the returned content is validated against the
\* response model and only the model's declared fields are serialised.
\* Without a response model every field of the content is serialised.
serialize_response(content, response_fields) ==
    IF response_fields = None THEN content
    ELSE Restrict(content, response_fields[1])

\* dict.update: the keys of e are set in d.
update(d, e) == e @@ d

\* Python truthiness of an optional string, an optional number, an optional
\* bool and an optional object (a pydantic model instance is always truthy).
truthy_str(o) == o # None /\ o[1] # ""
truthy_num(o) == o # None /\ o[1] # 0
truthy_bool(o) == o # None /\ o[1]
truthy_obj(o) == o # None

(***************************************************************************)
(* pydantic models: validation of a JSON object, construction of the       *)
(* instance (defaults filled in), and serialisation back to JSON           *)
(***************************************************************************)
Image_valid(body) == Image_fields \subseteq DOMAIN body

Image(body) == [url |-> body.url, name |-> body.name]

Item_valid(body) ==
    /\ {"name", "price"} \subseteq DOMAIN body
    /\ body.price >= price_ge
    /\ LET d == Get(body, "description", None)
       IN  d # None => Len(d[1]) <= description_max_length
    /\ LET im == Get(body, "images", None)
       IN  im # None => \A i \in DOMAIN im[1] : Image_valid(im[1][i])

\* tags: set[str] = set(): the JSON array becomes a set.
Item(body) ==
    [name        |-> body.name,
     description |-> Get(body, "description", None),
     price       |-> body.price,
     tax         |-> Get(body, "tax", None),
     images      |-> LET im == Get(body, "images", None)
                     IN  IF im = None THEN None
                         ELSE Some([i \in DOMAIN im[1] |-> Image(im[1][i])]),
     tags        |-> Range(Get(body, "tags", <<>>))]

Offer_valid(body) ==
    /\ {"name", "price", "items"} \subseteq DOMAIN body
    /\ \A i \in DOMAIN body.items : Item_valid(body.items[i])

Offer(body) ==
    [name        |-> body.name,
     description |-> Get(body, "description", None),
     price       |-> body.price,
     items       |-> [i \in DOMAIN body.items |-> Item(body.items[i])]]

BaseUser_valid(body) == {"username", "email"} \subseteq DOMAIN body

BaseUser(body) ==
    [username  |-> body.username,
     email     |-> body.email,
     full_name |-> Get(body, "full_name", None)]

UserIn_valid(body) == BaseUser_valid(body) /\ "password" \in DOMAIN body

UserIn(body) == update(BaseUser(body), [password |-> body.password])

\* UserInDB(**user_dict): User's optional fields and hashed_password.
UserInDB(user_dict) ==
    [username        |-> user_dict.username,
     email           |-> Some(user_dict.email),
     full_name       |-> Some(user_dict.full_name),
     disabled        |-> Some(user_dict.disabled),
     hashed_password |-> user_dict.hashed_password]

\* The JSON encodings of an Item (or of item.dict() with further keys): the
\* tags set is written as an array in the set's iteration order.
Item_json(item) == {[item EXCEPT !.tags = o] : o \in Orderings(item.tags)}

Items_json(items) ==
    {s \in [DOMAIN items -> UNION {Item_json(items[i]) : i \in DOMAIN items}] :
        \A i \in DOMAIN items : s[i] \in Item_json(items[i])}

Offer_json(offer) == {[offer EXCEPT !.items = s] : s \in Items_json(offer.items)}

(***************************************************************************)
(* Handlers with a request body                                            *)
(***************************************************************************)
\* change_item testing "importance is not None" instead of its truthiness.
change_item_not_none(item_id, item, user, importance, q) ==
    LET r0 == [item_id |-> item_id]
        r1 == IF truthy_str(q) THEN update(r0, [q |-> q[1]]) ELSE r0
        r2 == IF truthy_obj(item) THEN update(r1, [item |-> item[1]]) ELSE r1
        r3 == IF truthy_obj(user) THEN update(r2, [user |-> user[1]]) ELSE r2
        r4 == IF importance # None
              THEN update(r3, [importance |-> importance[1]]) ELSE r3
    IN  r4

\* main.py:135-152.  item, user, importance and q are None or Some(value).
change_item(item_id, item, user, importance, q) ==
    LET r0 == [item_id |-> item_id]
        r1 == IF truthy_str(q) THEN update(r0, [q |-> q[1]]) ELSE r0
        r2 == IF truthy_obj(item) THEN update(r1, [item |-> item[1]]) ELSE r1
        r3 == IF truthy_obj(user) THEN update(r2, [user |-> user[1]]) ELSE r2
        r4 == IF truthy_num(importance)
              THEN update(r3, [importance |-> importance[1]]) ELSE r3
    IN  r4

\* The JSON encodings of change_item's results.
change_item_json(results) ==
    IF "item" \in DOMAIN results
    THEN {[results EXCEPT !.item = j] : j \in Item_json(results.item)}
    ELSE {results}

\* main.py:155-161.  The value the handler returns, before response_model.
create_item(item) ==
    LET item_dict == item
    IN  IF truthy_num(item.tax)
        THEN update(item_dict, [price_with_tax |-> item.price + item.tax[1]])
        ELSE item_dict

\* create_offer returning the items in the opposite order.
create_offer_reversed(offer) ==
    [offer EXCEPT !.items = [i \in DOMAIN offer.items |->
                                offer.items[Len(offer.items) + 1 - i]]]

\* main.py:164-166
create_offer(offer) == offer

\* main.py:169-171
create_user(user) == user

(***************************************************************************)
(* Authentication                                                          *)
(***************************************************************************)
\* The outcome of a dependency or handler: a value, or a raised HTTPException.
Return(value) == [raised |-> FALSE, value |-> value]
Raise(response) == [raised |-> TRUE, response |-> response]

\* main.py:105-106
fake_hash_password(password) == "fakehashed" \o password

\* main.py:126-129.  None when the username is not a key of db.
get_user(db, username) ==
    IF username \in DOMAIN db THEN Some(UserInDB(db[username])) ELSE None

\* main.py:98-102
fake_decode_token(db, token) == get_user(db, token)

\* main.py:109-117
get_current_user(db, token) ==
    LET user == fake_decode_token(db, token)
    IN  IF ~truthy_obj(user)
        THEN Raise(HTTPException(401, "Invalid authentication credentials",
                                 "WWW-Authenticate" :> "Bearer"))
        ELSE Return(user[1])

\* get_current_active_user without the test of the disabled flag.
get_current_active_user_unchecked(current_user) == Return(current_user)

\* main.py:120-123
get_current_active_user(current_user) ==
    IF truthy_bool(current_user.disabled)
    THEN Raise(HTTPException(400, "Inactive user", <<>>))
    ELSE Return(current_user)

\* main.py:263-265
read_users_me(current_user) == current_user

\* login without the comparison of the hashes.
login_any_password(db, username, password) ==
    IF username \notin DOMAIN db
    THEN HTTPException(400, "Incorrect username or password", <<>>)
    ELSE Response(200, <<>>, [access_token |-> UserInDB(db[username]).username,
                              token_type |-> "bearer"])

\* main.py:174-184.  fake_users_db.get(username) is None for an unknown name.
login(db, username, password) ==
    IF username \notin DOMAIN db
    THEN HTTPException(400, "Incorrect username or password", <<>>)
    ELSE LET user == UserInDB(db[username])
             hashed_password == fake_hash_password(password)
         IN  IF ~(hashed_password = user.hashed_password)
             THEN HTTPException(400, "Incorrect username or password", <<>>)
             ELSE Response(200, <<>>, [access_token |-> user.username,
                                       token_type |-> "bearer"])

(***************************************************************************)
(* Handlers without a request body                                         *)
(***************************************************************************)
\* main.py:55-58
ModelName == {"alexnet", "resnet", "lenet"}

\* main.py:187-195
get_model(model_name) ==
    IF model_name = "alexnet"
    THEN [model_name |-> model_name, message |-> "Deep Learning FTW!"]
    ELSE IF model_name = "lenet"
    THEN [model_name |-> model_name, message |-> "LeCNN all the images"]
    ELSE [model_name |-> model_name, message |-> "Have some residuals"]

\* main.py:198-202.  RedirectResponse answers 307 with a Location header.
get_portal(teleport) ==
    IF teleport
    THEN Response(307, [location |-> "https://www.youtube.com/watch?v=dQw4w9WgXcQ"], <<>>)
    ELSE Response(200, <<>>, [message |-> "Here's your interdimensional portal."])

\* main.py:91-92 and main.py:34-38: both group q, skip and limit.
common_parameters(q, skip, limit) == [q |-> q, skip |-> skip, limit |-> limit]
CommonQueryParams(q, skip, limit) == [q |-> q, skip |-> skip, limit |-> limit]

\* main.py:205-207
read_users(commons) == commons

item_id_gt == 1
item_id_le == 1000
forbidden_item_id == 999

\* main.py:210-227
read_item(item_id, q, short) ==
    IF item_id = forbidden_item_id
    THEN HTTPException(403, "Item 999 forbidden", "X-Error" :> "There goes my error")
    ELSE LET i0 == [item_id |-> item_id]
             i1 == IF truthy_str(q) THEN update(i0, [q |-> q[1]]) ELSE i0
             i2 == IF ~short
                   THEN update(i1, [description |->
                            "This is an amazing item that has a long description"])
                   ELSE i1
         IN  Response(200, <<>>, i2)

\* Python's list[lo:hi]: a negative bound counts from the end of the list,
\* and both bounds are then clamped to 0..len.
slice_index(i, n) == IF i < 0 THEN Max(i + n, 0) ELSE Min(i, n)

slice(s, lo, hi) ==
    LET a == slice_index(lo, Len(s))
        b == slice_index(hi, Len(s))
    IN  IF a < b THEN SubSeq(s, a + 1, b) ELSE <<>>

\* main.py:230-255.  z is None or Some(list); commons is None or Some(object).
read_items(db, skip, limit, q, z, commons) ==
    LET r0 == [items |-> slice(db, skip, skip + limit)]
        r1 == IF truthy_str(q) THEN update(r0, [q |-> q[1]]) ELSE r0
        r2 == IF z # None /\ z[1] # <<>> THEN update(r1, [z |-> z[1]]) ELSE r1
        r3 == IF truthy_obj(commons) THEN update(r2, [commons |-> commons[1]]) ELSE r2
    IN  r3

\* main.py:258-260
read_file(file_path) == [file_path |-> file_path]

\* main.py:268-270
root == [message |-> "Hello World"]

(***************************************************************************)
(* Routes: request validation, the handler, and the serialisation of what  *)
(* it returns.  Each yields the set of responses the request may get.      *)
(***************************************************************************)
\* The value of an optional query parameter, or its declared default.
Default(o, d) == IF o = None THEN d ELSE o[1]

\* An optional body parameter: None when its key is omitted.
BodyParam(body, k) == IF k \in DOMAIN body THEN Some(body[k]) ELSE None

\* PUT /items/{item_id} (main.py:135-152): no response model.
route_change_item(req) ==
    LET body == req.body
        bad  == (IF "item" \in DOMAIN body /\ ~Item_valid(body.item)
                 THEN {<<"body", "item">>} ELSE {})
                \cup
                (IF "user" \in DOMAIN body /\ ~BaseUser_valid(body.user)
                 THEN {<<"body", "user">>} ELSE {})
    IN  IF bad # {}
        THEN {RequestValidationError(bad)}
        ELSE LET item == IF "item" \in DOMAIN body THEN Some(Item(body.item)) ELSE None
                 user == IF "user" \in DOMAIN body THEN Some(BaseUser(body.user)) ELSE None
                 results == change_item(req.item_id, item, user,
                                        BodyParam(body, "importance"), req.q)
             IN  {Response(200, <<>>, j) :
                     j \in change_item_json(serialize_response(results, None))}

\* POST /items/ (main.py:155-156): the body embeds the Item under "item",
\* and response_model is Item.
route_create_item(req) ==
    IF "item" \notin DOMAIN req.body \/ ~Item_valid(req.body.item)
    THEN {RequestValidationError({<<"body", "item">>})}
    ELSE LET content == create_item(Item(req.body.item))
         IN  {Response(200, <<>>, j) :
                 j \in Item_json(serialize_response(content, Some(Item_fields)))}

\* POST /offers/ (main.py:164-165): no response model.
route_create_offer(req) ==
    IF ~Offer_valid(req.body)
    THEN {RequestValidationError({<<"body">>})}
    ELSE {Response(200, <<>>, j) :
             j \in Offer_json(serialize_response(create_offer(Offer(req.body)), None))}

\* The route without its return annotation: no response model.
route_create_user_unfiltered(req) ==
    IF ~UserIn_valid(req.body)
    THEN {RequestValidationError({<<"body">>})}
    ELSE {Response(201, <<>>, serialize_response(create_user(UserIn(req.body)), None))}

\* POST /user/ (main.py:169-170): status 201, return annotation BaseUser.
route_create_user(req) ==
    IF ~UserIn_valid(req.body)
    THEN {RequestValidationError({<<"body">>})}
    ELSE {Response(201, <<>>,
              serialize_response(create_user(UserIn(req.body)), Some(BaseUser_fields)))}

\* POST /token (main.py:174-175)
route_login(req, users_db) == {login(users_db, req.username, req.password)}

\* GET /models/{model_name} (main.py:187-188): the segment must be a ModelName.
route_get_model(req) ==
    IF req.model_name \notin ModelName
    THEN {RequestValidationError({<<"path", "model_name">>})}
    ELSE {Response(200, <<>>, get_model(req.model_name))}

\* GET /portal (main.py:198-199)
route_get_portal(req) == {get_portal(req.teleport)}

\* GET /users/ (main.py:205-206, 91): skip defaults to 0 and limit to 100.
route_read_users(req) ==
    {Response(200, <<>>,
        read_users(common_parameters(req.q, Default(req.skip, 0), Default(req.limit, 100))))}

\* The route with Path(ge=1, le=1000).
route_read_item_ge(req) ==
    IF ~(req.item_id >= item_id_gt /\ req.item_id <= item_id_le)
    THEN {RequestValidationError({<<"path", "item_id">>})}
    ELSE {read_item(req.item_id, req.q, req.short)}

\* GET /items/{item_id} (main.py:210-215): Path(gt=1, le=1000).
route_read_item(req) ==
    IF ~(req.item_id > item_id_gt /\ req.item_id <= item_id_le)
    THEN {RequestValidationError({<<"path", "item_id">>})}
    ELSE {read_item(req.item_id, req.q, req.short)}

\* Query(min_length=3, max_length=50, regex="^fixedquery$") (main.py:234-243)
read_items_q_valid(q) ==
    q # None => Len(q[1]) >= 3 /\ Len(q[1]) <= 50 /\ q[1] = "fixedquery"

\* GET /items/ (main.py:230-247): skip defaults to 0, limit to 10, z to
\* ["foo", "bar"]; commons is CommonQueryParams built from the same query
\* string, where limit defaults to 100.
route_read_items(req, items_db) ==
    IF ~read_items_q_valid(req.q)
    THEN {RequestValidationError({<<"query", "q">>})}
    ELSE LET z == IF req.z = None THEN Some(<<"foo", "bar">>) ELSE req.z
             commons == CommonQueryParams(req.q, Default(req.skip, 0),
                                          Default(req.limit, 100))
         IN  {Response(200, <<>>,
                 read_items(items_db, Default(req.skip, 0), Default(req.limit, 10),
                            req.q, z, Some(commons)))}

\* GET /files/{file_path:path} (main.py:258-259)
route_read_file(req) == {Response(200, <<>>, read_file(req.file_path))}

\* GET / (main.py:268-269)
route_root(req) == {Response(200, <<>>, root)}

\* oauth2_scheme (main.py:88): without a bearer Authorization header the
\* request is refused 401; otherwise the token is the header's credential.
oauth2_scheme(authorization) ==
    IF authorization = None
    THEN Raise(HTTPException(401, "Not authenticated", "WWW-Authenticate" :> "Bearer"))
    ELSE Return(authorization[1])

\* GET /users/me (main.py:263-264): the dependency chain oauth2_scheme,
\* get_current_user, get_current_active_user, then the handler; no response
\* model.
route_read_users_me(req, users_db) ==
    LET t == oauth2_scheme(req.authorization)
    IN  IF t.raised THEN {t.response}
        ELSE LET u == get_current_user(users_db, t.value)
             IN  IF u.raised THEN {u.response}
                 ELSE LET a == get_current_active_user(u.value)
                      IN  IF a.raised THEN {a.response}
                          ELSE {Response(200, <<>>,
                                   serialize_response(read_users_me(a.value), None))}

(***************************************************************************)
(* The requests the model sends                                            *)
(***************************************************************************)
SeqsUpTo(S, n) == UNION {[1..k -> S] : k \in 0..n}

RECURSIVE Repeat(_, _)
Repeat(c, n) ==
    IF n = 0 THEN ""
    ELSE LET half == Repeat(c, n \div 2)
         IN  IF n % 2 = 0 THEN half \o half ELSE half \o half \o c

\* A description one character longer than Item allows.
LongText == Repeat("x", description_max_length + 1)

an_image == [url |-> "http://example.com/baz.jpg", name |-> "The Baz"]

\* Item bodies: every combination of price, tax and tags, and some with a
\* description or images.
item_bodies ==
    {[name |-> "Foo", price |-> p] @@ t @@ g :
        p \in {0, 10},
        t \in OptKey("tax", {None, Some(0), Some(2)}),
        g \in OptKey("tags", {<<"b", "a">>, <<"a", "a">>})}
    \cup
    {[name |-> "Foo", price |-> p] @@ d @@ im :
        p \in {-1, 10},
        d \in OptKey("description", {Some("A very nice Item"), Some(LongText)}),
        im \in OptKey("images", {Some(<<an_image>>), Some(<<[url |-> "u"]>>)})}

offer_item_bodies ==
    {[name |-> "Foo", price |-> 10],
     [name |-> "Bar", price |-> 5, description |-> Some("The Bar"), tax |-> Some(2),
      images |-> Some(<<an_image>>), tags |-> <<"b", "a", "b">>],
     [name |-> "Bad", price |-> -1]}

offer_bodies ==
    {[name |-> "Offer", price |-> 20, items |-> s] @@ d :
        s \in SeqsUpTo(offer_item_bodies, MaxOfferItems),
        d \in OptKey("description", {Some("Two for one")})}
    \cup {[name |-> "Offer", price |-> 20]}

user_bodies ==
    {[username |-> "u", email |-> "u@x.com"] @@ f @@ p :
        f \in OptKey("full_name", {None, Some("U Ser")}),
        p \in OptKey("password", {"p", "secret"})}
    \cup {[username |-> "u", password |-> "p"]}

query_strings == {None, Some(""), Some("x")}

change_item_requests ==
    {[item_id |-> 7, q |-> q, body |-> i @@ u @@ m] :
        q \in query_strings,
        i \in OptKey("item", {[name |-> "Foo", price |-> 10]}),
        u \in OptKey("user", {[username |-> "u", email |-> "u@x.com", password |-> "p"]}),
        m \in OptKey("importance", {0, 5})}
    \cup
    {[item_id |-> 0, q |-> None, body |-> b] :
        b \in {[item |-> [name |-> "Bar", price |-> 5, tags |-> <<"b", "a">>]],
               [item |-> [name |-> "Bar", price |-> -1]],
               [user |-> [username |-> "u"]],
               [item |-> [name |-> "Bar"], user |-> [username |-> "u"]]}}

create_item_requests ==
    {[body |-> [item |-> b]] : b \in item_bodies}
    \cup {[body |-> [name |-> "Foo", price |-> 10, tax |-> Some(2)]]}

create_offer_requests == {[body |-> b] : b \in offer_bodies}

create_user_requests == {[body |-> b] : b \in user_bodies}

login_requests ==
    [username : {"johndoe", "alice", "bob"},
     password : {"secret", "secret2", "wrong", "fakehashedsecret"}]

read_users_me_requests ==
    [authorization : {None, Some("johndoe"), Some("alice"), Some("bob")}]

get_model_requests == [model_name : {"alexnet", "resnet", "lenet", "vgg"}]

get_portal_requests == [teleport : BOOLEAN]

read_users_requests ==
    [q : {None, Some("x")}, skip : {None, Some(3)}, limit : {None, Some(7)}]

item_ids ==
    ((item_id_gt - IdMargin)..(item_id_gt + IdMargin))
    \cup ((item_id_le - IdMargin)..(item_id_le + IdMargin))

read_item_requests ==
    [item_id : item_ids, q : {None}, short : BOOLEAN]
    \cup [item_id : {5, forbidden_item_id}, q : query_strings, short : BOOLEAN]

read_items_requests ==
    [skip  : {Some(i) : i \in (0 - MaxNegative)..MaxSkip},
     limit : {Some(i) : i \in (0 - MaxNegative)..MaxLimit},
     q : {None}, z : {None}]
    \cup
    [skip : {None, Some(1)}, limit : {None}, q : {None}, z : {None, Some(<<"a">>)}]
    \cup
    [skip : {None}, limit : {None, Some(1)},
     q : {Some("fixedquery"), Some("fix"), Some("fixedquery2")}, z : {None}]

read_file_requests == [file_path : {"a.txt", "home/user/a.txt"}]

(***************************************************************************)
(* The state machine                                                       *)
(***************************************************************************)
\* No GET /users/me request is in its dependency chain.
auth_idle == [pc |-> "idle", request |-> None, token |-> None, user |-> None]

no_exchange == [endpoint |-> "none", request |-> None, response |-> None]

Exchange(endpoint, request, response) ==
    [endpoint |-> endpoint, request |-> request, response |-> response]

Init ==
    /\ fake_items_db = seed_items_db
    /\ fake_users_db = seed_users_db
    /\ auth = auth_idle
    /\ exchange = no_exchange

Serve_change_item ==
    /\ \E req \in change_item_requests : \E resp \in route_change_item(req) :
          exchange' = Exchange("change_item", req, resp)
    /\ UNCHANGED <<fake_items_db, fake_users_db, auth>>

Serve_create_item ==
    /\ \E req \in create_item_requests : \E resp \in route_create_item(req) :
          exchange' = Exchange("create_item", req, resp)
    /\ UNCHANGED <<fake_items_db, fake_users_db, auth>>

Serve_create_offer ==
    /\ \E req \in create_offer_requests : \E resp \in route_create_offer(req) :
          exchange' = Exchange("create_offer", req, resp)
    /\ UNCHANGED <<fake_items_db, fake_users_db, auth>>

Serve_create_user ==
    /\ \E req \in create_user_requests : \E resp \in route_create_user(req) :
          exchange' = Exchange("create_user", req, resp)
    /\ UNCHANGED <<fake_items_db, fake_users_db, auth>>

\* A login that, when it succeeds, clears the user's disabled flag in the
\* directory.
Serve_login_enabling ==
    /\ \E req \in login_requests : \E resp \in route_login(req, fake_users_db) :
          /\ exchange' = Exchange("login", req, resp)
          /\ fake_users_db' =
                IF resp.status = 200
                THEN [fake_users_db EXCEPT ![req.username].disabled = FALSE]
                ELSE fake_users_db
    /\ UNCHANGED <<fake_items_db, auth>>

Serve_login ==
    /\ \E req \in login_requests : \E resp \in route_login(req, fake_users_db) :
          exchange' = Exchange("login", req, resp)
    /\ UNCHANGED <<fake_items_db, fake_users_db, auth>>

Serve_get_model ==
    /\ \E req \in get_model_requests : \E resp \in route_get_model(req) :
          exchange' = Exchange("get_model", req, resp)
    /\ UNCHANGED <<fake_items_db, fake_users_db, auth>>

Serve_get_portal ==
    /\ \E req \in get_portal_requests : \E resp \in route_get_portal(req) :
          exchange' = Exchange("get_portal", req, resp)
    /\ UNCHANGED <<fake_items_db, fake_users_db, auth>>

Serve_read_users ==
    /\ \E req \in read_users_requests : \E resp \in route_read_users(req) :
          exchange' = Exchange("read_users", req, resp)
    /\ UNCHANGED <<fake_items_db, fake_users_db, auth>>

Serve_read_item ==
    /\ \E req \in read_item_requests : \E resp \in route_read_item(req) :
          exchange' = Exchange("read_item", req, resp)
    /\ UNCHANGED <<fake_items_db, fake_users_db, auth>>

Serve_read_items ==
    /\ \E req \in read_items_requests : \E resp \in route_read_items(req, fake_items_db) :
          exchange' = Exchange("read_items", req, resp)
    /\ UNCHANGED <<fake_items_db, fake_users_db, auth>>

Serve_read_file ==
    /\ \E req \in read_file_requests : \E resp \in route_read_file(req) :
          exchange' = Exchange("read_file", req, resp)
    /\ UNCHANGED <<fake_items_db, fake_users_db, auth>>

Serve_root ==
    /\ \E resp \in route_root(None) : exchange' = Exchange("root", None, resp)
    /\ UNCHANGED <<fake_items_db, fake_users_db, auth>>

\* GET /users/me is served in steps, one per dependency, and other requests
\* may be served between two steps.
Receive_read_users_me ==
    /\ auth.pc = "idle"
    /\ \E req \in read_users_me_requests :
          auth' = [auth EXCEPT !.pc = "oauth2_scheme", !.request = Some(req)]
    /\ UNCHANGED <<fake_items_db, fake_users_db, exchange>>

\* The chain ends with the response of the dependency that raised.
Refuse_read_users_me(response) ==
    /\ exchange' = Exchange("read_users_me", auth.request[1], response)
    /\ auth' = auth_idle

Dep_oauth2_scheme ==
    /\ auth.pc = "oauth2_scheme"
    /\ LET t == oauth2_scheme(auth.request[1].authorization)
       IN  IF t.raised
           THEN Refuse_read_users_me(t.response)
           ELSE /\ auth' = [auth EXCEPT !.pc = "get_current_user", !.token = Some(t.value)]
                /\ UNCHANGED exchange
    /\ UNCHANGED <<fake_items_db, fake_users_db>>

Dep_get_current_user ==
    /\ auth.pc = "get_current_user"
    /\ LET u == get_current_user(fake_users_db, auth.token[1])
       IN  IF u.raised
           THEN Refuse_read_users_me(u.response)
           ELSE /\ auth' = [auth EXCEPT !.pc = "get_current_active_user",
                                        !.user = Some(u.value)]
                /\ UNCHANGED exchange
    /\ UNCHANGED <<fake_items_db, fake_users_db>>

Dep_get_current_active_user ==
    /\ auth.pc = "get_current_active_user"
    /\ LET a == get_current_active_user(auth.user[1])
       IN  IF a.raised
           THEN Refuse_read_users_me(a.response)
           ELSE /\ auth' = [auth EXCEPT !.pc = "read_users_me", !.user = Some(a.value)]
                /\ UNCHANGED exchange
    /\ UNCHANGED <<fake_items_db, fake_users_db>>

Serve_read_users_me ==
    /\ auth.pc = "read_users_me"
    /\ exchange' = Exchange("read_users_me", auth.request[1],
                       Response(200, <<>>,
                           serialize_response(read_users_me(auth.user[1]), None)))
    /\ auth' = auth_idle
    /\ UNCHANGED <<fake_items_db, fake_users_db>>

Next ==
    \/ Serve_change_item
    \/ Serve_create_item
    \/ Serve_create_offer
    \/ Serve_create_user
    \/ Serve_login
    \/ Serve_get_model
    \/ Serve_get_portal
    \/ Serve_read_users
    \/ Serve_read_item
    \/ Serve_read_items
    \/ Serve_read_file
    \/ Serve_root
    \/ Receive_read_users_me
    \/ Dep_oauth2_scheme
    \/ Dep_get_current_user
    \/ Dep_get_current_active_user
    \/ Serve_read_users_me

Spec == Init /\ [][Next]_vars

\* The responses a request to an endpoint may get, given the two collections.
Handle(endpoint, req, items_db, users_db) ==
    CASE endpoint = "change_item"   -> route_change_item(req)
      [] endpoint = "create_item"   -> route_create_item(req)
      [] endpoint = "create_offer"  -> route_create_offer(req)
      [] endpoint = "create_user"   -> route_create_user(req)
      [] endpoint = "login"         -> route_login(req, users_db)
      [] endpoint = "get_model"     -> route_get_model(req)
      [] endpoint = "get_portal"    -> route_get_portal(req)
      [] endpoint = "read_users"    -> route_read_users(req)
      [] endpoint = "read_item"     -> route_read_item(req)
      [] endpoint = "read_items"    -> route_read_items(req, items_db)
      [] endpoint = "read_file"     -> route_read_file(req)
      [] endpoint = "read_users_me" -> route_read_users_me(req, users_db)
      [] endpoint = "root"          -> route_root(req)

(***************************************************************************)
(* Properties                                                              *)
(***************************************************************************)
Served(endpoint) == exchange.endpoint = endpoint
Answered(endpoint, status) ==
    exchange.endpoint = endpoint /\ exchange.response.status = status

\* The JSON objects nested in the body of the last response.
NestedObjects ==
    LET body == exchange.response.body
    IN  IF Answered("change_item", 200)
        THEN {body[k] : k \in {"item", "user"} \cap DOMAIN body}
        ELSE IF Answered("create_offer", 200) THEN Range(body.items)
        ELSE IF Answered("read_items", 200) THEN Range(body.items) \cup {body.commons}
        ELSE {}

StoredHashes == {seed_users_db[u].hashed_password : u \in DOMAIN seed_users_db}

\* C1: no response body, of any endpoint, has a hashed_password key (at the
\* top level or in a nested object), and a login's token fields never carry
\* a stored hash.
C1_NoHashedPassword ==
    ~Served("none") =>
        /\ \A o \in {exchange.response.body} \cup NestedObjects :
              "hashed_password" \notin DOMAIN o
        /\ Answered("login", 200) =>
              exchange.response.body.access_token \notin StoredHashes

\* C2: a login succeeds with {access_token: username, token_type: "bearer"}
\* exactly when the username is a key of the user directory and
\* "fakehashed" + password is that record's stored hash; every other login
\* fails with 400 and the one detail "Incorrect username or password".
C2_Login ==
    Served("login") =>
        LET u  == exchange.request.username
            p  == exchange.request.password
            ok == /\ u \in DOMAIN seed_users_db
                  /\ "fakehashed" \o p = seed_users_db[u].hashed_password
        IN  IF ok
            THEN exchange.response =
                    [status |-> 200, headers |-> <<>>,
                     body |-> [access_token |-> u, token_type |-> "bearer"]]
            ELSE exchange.response =
                    [status |-> 400, headers |-> <<>>,
                     body |-> [detail |-> "Incorrect username or password"]]

\* A disabled user (alice) logs in with her password.
C2_Witness ==
    /\ Answered("login", 200)
    /\ exchange.request.username = "alice"
    /\ exchange.request.password = "secret2"

\* C3: a bearer token presented to GET /users/me is refused 401 with
\* WWW-Authenticate: Bearer when it is no username of the directory, else
\* refused 400 when that user is disabled, else answered with the user whose
\* username is the token.
C3_BearerToken ==
    (Served("read_users_me") /\ exchange.request.authorization # None) =>
        LET token == exchange.request.authorization[1]
            resp  == exchange.response
        IN  IF token \notin DOMAIN seed_users_db
            THEN /\ resp.status = 401
                 /\ "WWW-Authenticate" \in DOMAIN resp.headers
                 /\ resp.headers["WWW-Authenticate"] = "Bearer"
            ELSE IF seed_users_db[token].disabled
            THEN resp.status = 400
            ELSE /\ resp.status = 200
                 /\ resp.body.username = token

\* alice's token is refused as inactive.
C3_Witness ==
    /\ Answered("read_users_me", 400)
    /\ exchange.request.authorization = Some("alice")

\* C4: the response to a valid POST /items/ has price_with_tax = price + tax
\* when tax is present and non-zero, and no price_with_tax key otherwise.
C4_PriceWithTax ==
    Answered("create_item", 200) =>
        LET item == exchange.request.body.item
            tax  == Get(item, "tax", None)
            body == exchange.response.body
        IN  IF tax # None /\ tax[1] # 0
            THEN /\ "price_with_tax" \in DOMAIN body
                 /\ body.price_with_tax = item.price + tax[1]
            ELSE "price_with_tax" \notin DOMAIN body

\* C5: GET /items/{item_id} is refused 422 without running the handler when
\* item_id <= 1 or item_id > 1000, refused 403 with the X-Error header when
\* item_id = 999, and otherwise answered 200 with item_id in the body.
C5_ReadItem ==
    Served("read_item") =>
        LET id   == exchange.request.item_id
            resp == exchange.response
        IN  IF id <= 1 \/ id > 1000
            THEN resp.status = 422 /\ "item_id" \notin DOMAIN resp.body
            ELSE IF id = 999
            THEN /\ resp.status = 403
                 /\ "X-Error" \in DOMAIN resp.headers
                 /\ resp.headers["X-Error"] = "There goes my error"
            ELSE /\ resp.status = 200
                 /\ resp.body.item_id = id

C5_Witness ==
    /\ Answered("read_item", 403)
    /\ exchange.request.item_id = 999

\* The elements of s at the positions skip, ..., skip + limit - 1 that exist
\* (positions count from 0), in order.
Window(s, skip, limit) ==
    LET a == Max(skip, 0)
        b == Min(skip + limit, Len(s))
    IN  IF a < b THEN SubSeq(s, a + 1, b) ELSE <<>>

\* C6: for all integers skip and limit, GET /items/ succeeds and its items
\* are the seed list's elements from position skip to position skip + limit,
\* fewer or none when the range leaves the list.
C6_Slice ==
    (Served("read_items") /\ read_items_q_valid(exchange.request.q)) =>
        /\ exchange.response.status = 200
        /\ exchange.response.body.items =
              Window(seed_items_db, Default(exchange.request.skip, 0),
                     Default(exchange.request.limit, 10))

C8_RoundTrip ==
    Answered("create_offer", 200) => exchange.response.body = exchange.request.body

\* An Item of a response carries every declared field: the value sent, or the
\* default of a field the body omitted; its tags are the tags sent, without
\* duplicates, in some order.
ItemCompleted(out, in) ==
    /\ DOMAIN out = {"name", "description", "price", "tax", "images", "tags"}
    /\ out.name = in.name
    /\ out.price = in.price
    /\ out.description = (IF "description" \in DOMAIN in THEN in.description ELSE None)
    /\ out.tax = (IF "tax" \in DOMAIN in THEN in.tax ELSE None)
    /\ out.images = (IF "images" \in DOMAIN in THEN in.images ELSE None)
    /\ Range(out.tags) = (IF "tags" \in DOMAIN in THEN Range(in.tags) ELSE {})
    /\ \A i, j \in DOMAIN out.tags : i # j => out.tags[i] # out.tags[j]

\* C8 (amended): the response to a valid POST /offers/ carries exactly the
\* declared fields of Offer and, for each nested Item in the order sent, of
\* Item; a field the body gave keeps its value, an omitted optional field
\* has its default (null, tags empty), and tags come back as the set sent.
C8_Completed ==
    Answered("create_offer", 200) =>
        LET in  == exchange.request.body
            out == exchange.response.body
        IN  /\ DOMAIN out = {"name", "description", "price", "items"}
            /\ out.name = in.name
            /\ out.price = in.price
            /\ out.description =
                  (IF "description" \in DOMAIN in THEN in.description ELSE None)
            /\ Len(out.items) = Len(in.items)
            /\ \A i \in DOMAIN in.items : ItemCompleted(out.items[i], in.items[i])

\* An offer that omits its description, with two different items of which
\* the first omits every optional field.
C8_Witness ==
    /\ Answered("create_offer", 200)
    /\ "description" \notin DOMAIN exchange.request.body
    /\ Len(exchange.request.body.items) = 2
    /\ DOMAIN exchange.request.body.items[1] = {"name", "price"}
    /\ exchange.request.body.items[2].name = "Bar"

\* C9: in every reachable state the two collections have their initial
\* values, and the last response is one the request gets from the initial
\* collections, whatever was served before it or between its steps.
C9_Stateless ==
    /\ fake_items_db = seed_items_db
    /\ fake_users_db = seed_users_db
    /\ ~Served("none") =>
          exchange.response \in
              Handle(exchange.endpoint, exchange.request, seed_items_db, seed_users_db)

\* A login is answered between two dependencies of a GET /users/me.
C9_Witness ==
    /\ Answered("login", 200)
    /\ exchange.request.username = "alice"
    /\ auth.pc = "get_current_active_user"
    /\ auth.token = Some("alice")

\* C10: the result of change_item has item_id, and has each of the keys q,
\* item, user and importance exactly when that input is present and truthy:
\* q = "" and importance = 0 are dropped, and the request still succeeds.
C10_ChangeItem ==
    Served("change_item") =>
        LET in   == exchange.request.body
            q    == exchange.request.q
            resp == exchange.response
            out  == resp.body
        IN  /\ ("item" \in DOMAIN in =>
                      {"name", "price"} \subseteq DOMAIN in.item /\ in.item.price >= 0)
               /\ ("user" \in DOMAIN in => {"username", "email"} \subseteq DOMAIN in.user)
               => resp.status = 200
            /\ resp.status = 200 =>
                  /\ "item_id" \in DOMAIN out
                  /\ out.item_id = exchange.request.item_id
                  /\ DOMAIN out \subseteq {"item_id", "q", "item", "user", "importance"}
                  /\ "q" \in DOMAIN out <=> (q # None /\ q[1] # "")
                  /\ "item" \in DOMAIN out <=> "item" \in DOMAIN in
                  /\ "user" \in DOMAIN out <=> "user" \in DOMAIN in
                  /\ "importance" \in DOMAIN out <=>
                        ("importance" \in DOMAIN in /\ in.importance # 0)
                  /\ "importance" \in DOMAIN out => out.importance = in.importance
                  /\ "q" \in DOMAIN out => out.q = q[1]

\* importance = 0 and q = "" are sent and dropped.
C10_Witness ==
    /\ Answered("change_item", 200)
    /\ exchange.request.q = Some("")
    /\ "importance" \in DOMAIN exchange.request.body
    /\ exchange.request.body.importance = 0
    /\ DOMAIN exchange.response.body = {"item_id"}

====
